---- MODULE Spec2Model ----
(***************************************************************************)
(* Model of the grid simulation of game.js: the level built by resetLevel  *)
(* from rawMap, the player's moves and pushes (tryMovePlayer), the enemy   *)
(* patrol (moveEnemies), and the resets that handleDeath and handleWin     *)
(* schedule with setTimeout.                                               *)
(***************************************************************************)
EXTENDS Integers, Sequences, FiniteSets

VARIABLES
    player,            \* {x, y}
    blocks,            \* array of {x, y}
    keys,              \* array of {x, y, collected}
    door,              \* {x, y, open}
    enemies,           \* array of {x, y, dir}
    totalKeys,
    keysCollected,
    enemyStepCounter,
    pendingResets,     \* setTimeout(resetLevel, ..) calls that have not fired yet
    outcome,           \* categories passed to showMessage by the last handler, in order
    ended              \* history: Death and Win shown since the last resetLevel

game == <<player, blocks, keys, door, enemies, totalKeys, keysCollected>>
vars == <<player, blocks, keys, door, enemies, totalKeys, keysCollected,
          enemyStepCounter, pendingResets, outcome, ended>>

----------------------------------------------------------------------------
(* Constants of the program *)

GRID_WIDTH == 15
GRID_HEIGHT == 11
FLOOR == 0
WALL == 1
ENEMY_STEP_FRAMES == 40

rawMap ==
    <<
       <<"#","#","#","#","#","#","#","#","#","#","#","#","#","#","#">>,
       <<"#","P"," "," "," ","B"," "," "," "," ","K"," "," ","D","#">>,
       <<"#"," "," "," ","#","#","#"," "," "," ","#","#","#"," ","#">>,
       <<"#"," "," "," ","#"," ","E"," "," "," "," "," "," "," ","#">>,
       <<"#"," "," "," ","#"," "," "," ","B"," "," "," "," "," ","#">>,
       <<"#"," "," "," ","#","#","#"," "," "," ","#","#","#"," ","#">>,
       <<"#"," "," "," ","K"," "," "," "," "," "," "," "," "," ","#">>,
       <<"#"," "," "," "," "," "," "," ","B"," "," "," "," "," ","#">>,
       <<"#"," "," "," ","#","#","#"," "," "," ","#","#","#"," ","#">>,
       <<"#"," "," "," "," "," "," "," "," "," "," ","K"," "," ","#">>,
       <<"#","#","#","#","#","#","#","#","#","#","#","#","#","#","#">>
    >>

(* Bounds of the model *)

\* largest distance (in cells) of a block from its map position, under Spec
MaxShift == 1
\* the same under SpecPush, where the enemies stand still
MaxPushShift == 3
\* largest number of blocks that are off their map position
MaxMoved == 1
\* largest number of scheduled resets that have not fired
MaxPending == 1
\* largest number of scheduled resets in a level with a second enemy
MaxDeaths == 2
\* largest distance of a block from its map position while the timers are followed
MaxWalkShift == 0

----------------------------------------------------------------------------
(* Level setup: what resetLevel computes from rawMap *)

\* rawMap[y][x], with the 0-based indices of the code
MapChar(x, y) == rawMap[y + 1][x + 1]

\* the cells in the order of resetLevel's two loops: y outer, x inner
ScanOrder ==
    [i \in 1..(GRID_WIDTH * GRID_HEIGHT) |->
        [x |-> (i - 1) % GRID_WIDTH, y |-> (i - 1) \div GRID_WIDTH]]

Marked(ch) == SelectSeq(ScanOrder, LAMBDA c : MapChar(c.x, c.y) = ch)

\* tiles[y][x]: resetLevel rebuilds the same array from rawMap on every call
tiles ==
    [y \in 0..(GRID_HEIGHT - 1) |->
        [x \in 0..(GRID_WIDTH - 1) |->
            IF MapChar(x, y) = "#" THEN WALL ELSE FLOOR]]

LevelPlayer == Marked("P")[Len(Marked("P"))]
LevelBlocks == Marked("B")
LevelKeys ==
    [i \in 1..Len(Marked("K")) |->
        [x |-> Marked("K")[i].x, y |-> Marked("K")[i].y, collected |-> FALSE]]
LevelDoor ==
    [x |-> Marked("D")[Len(Marked("D"))].x,
     y |-> Marked("D")[Len(Marked("D"))].y, open |-> FALSE]
LevelEnemies ==
    [i \in 1..Len(Marked("E")) |->
        [x |-> Marked("E")[i].x, y |-> Marked("E")[i].y, dir |-> 1]]
LevelTotalKeys == Len(Marked("K"))
\* resetLevel without line 127 and line 150: the keys stay as they were
LoadLevelKeepsKeys ==
    /\ player' = LevelPlayer
    /\ blocks' = LevelBlocks
    /\ keys' = keys
    /\ door' = LevelDoor
    /\ enemies' = LevelEnemies
    /\ keysCollected' = 0
    /\ totalKeys' = LevelTotalKeys

\* the assignments of resetLevel to the game state
LoadLevel ==
    /\ player' = LevelPlayer
    /\ blocks' = LevelBlocks
    /\ keys' = LevelKeys
    /\ door' = LevelDoor
    /\ enemies' = LevelEnemies
    /\ keysCollected' = 0
    /\ totalKeys' = LevelTotalKeys

----------------------------------------------------------------------------
(* Helpers *)

isInsideGrid(x, y) == x >= 0 /\ x < GRID_WIDTH /\ y >= 0 /\ y < GRID_HEIGHT

\* isWall with the comparison inverted: a floor tile counts as a wall
isWallInverted(x, y) == tiles[y][x] = FLOOR

isWall(x, y) == tiles[y][x] = WALL

\* index of the first block at (x, y), 0 when find returns undefined
findBlockAt(x, y) ==
    LET hits == {i \in DOMAIN blocks : blocks[i].x = x /\ blocks[i].y = y}
    IN  IF hits = {} THEN 0 ELSE CHOOSE i \in hits : \A j \in hits : i <= j

\* index of the first uncollected key at (x, y), 0 when find returns undefined
findKeyAt(x, y) ==
    LET hits == {i \in DOMAIN keys :
                    keys[i].x = x /\ keys[i].y = y /\ ~keys[i].collected}
    IN  IF hits = {} THEN 0 ELSE CHOOSE i \in hits : \A j \in hits : i <= j

isEnemyAt(x, y) == \E i \in DOMAIN enemies : enemies[i].x = x /\ enemies[i].y = y

\* isBlockingTile without line 189: another block does not block a push
isBlockingTileNoBlocks(x, y) ==
    IF ~isInsideGrid(x, y) THEN TRUE
    ELSE IF isWall(x, y) THEN TRUE
    ELSE FALSE

isBlockingTile(x, y) ==
    IF ~isInsideGrid(x, y) THEN TRUE
    ELSE IF isWall(x, y) THEN TRUE
    ELSE IF findBlockAt(x, y) # 0 THEN TRUE
    ELSE FALSE

----------------------------------------------------------------------------
(* Player movement *)

\* a return of tryMovePlayer that changes nothing and shows nothing
ReturnSilently ==
    /\ UNCHANGED game
    /\ outcome' = <<>>
    /\ UNCHANGED pendingResets

\* handleDeath without line 259: the message only, no reset is scheduled
handleDeathNoReset ==
    /\ outcome' = <<"Death">>
    /\ pendingResets' = pendingResets

\* handleDeath: the message, and setTimeout(resetLevel, 400)
handleDeath ==
    /\ outcome' = <<"Death">>
    /\ pendingResets' = pendingResets + 1

\* handleWin: the message, and setTimeout(resetLevel, 1200)
handleWin ==
    /\ outcome' = <<"Win">>
    /\ pendingResets' = pendingResets + 1

\* CollectKey without line 244: the key is marked, the counter is not advanced
CollectKeyUncounted(px, py) ==
    LET key == findKeyAt(px, py)
    IN  IF key # 0 /\ ~keys[key].collected
        THEN /\ keys' = [keys EXCEPT ![key].collected = TRUE]
             /\ keysCollected' = keysCollected
             /\ IF keysCollected = totalKeys
                THEN /\ door' = [door EXCEPT !.open = TRUE]
                     /\ outcome' = <<"KeyCollected", "AllKeysCollected">>
                ELSE /\ door' = door
                     /\ outcome' = <<"KeyCollected">>
        ELSE /\ UNCHANGED <<keys, keysCollected, door>>
             /\ outcome' = <<>>

\* CollectKey without the test of line 248: every key opens the door
CollectKeyOpensEarly(px, py) ==
    LET key == findKeyAt(px, py)
    IN  IF key # 0 /\ ~keys[key].collected
        THEN /\ keys' = [keys EXCEPT ![key].collected = TRUE]
             /\ keysCollected' = keysCollected + 1
             /\ door' = [door EXCEPT !.open = TRUE]
             /\ outcome' = <<"KeyCollected", "AllKeysCollected">>
        ELSE /\ UNCHANGED <<keys, keysCollected, door>>
             /\ outcome' = <<>>
\* the key is picked up but no message is shown
CollectKeySilent(px, py) ==
    LET key == findKeyAt(px, py)
    IN  IF key # 0 /\ ~keys[key].collected
        THEN /\ keys' = [keys EXCEPT ![key].collected = TRUE]
             /\ keysCollected' = keysCollected + 1
             /\ door' = IF keysCollected + 1 = totalKeys
                        THEN [door EXCEPT !.open = TRUE] ELSE door
             /\ outcome' = <<>>
        ELSE /\ UNCHANGED <<keys, keysCollected, door>>
             /\ outcome' = <<>>

\* lines 240-252: the key under the player at (px, py), after the move
CollectKey(px, py) ==
    LET key == findKeyAt(px, py)
    IN  IF key # 0 /\ ~keys[key].collected
        THEN /\ keys' = [keys EXCEPT ![key].collected = TRUE]
             /\ keysCollected' = keysCollected + 1
             /\ IF keysCollected + 1 = totalKeys
                THEN /\ door' = [door EXCEPT !.open = TRUE]
                     /\ outcome' = <<"KeyCollected", "AllKeysCollected">>
                ELSE /\ door' = door
                     /\ outcome' = <<"KeyCollected">>
        ELSE /\ UNCHANGED <<keys, keysCollected, door>>
             /\ outcome' = <<>>

\* DoorBump without the test of line 209: the door lets the player win at once
DoorBumpAlwaysWins == handleWin /\ UNCHANGED game
\* DoorBump with the test of line 209 turned round: the open door stays shut
DoorBumpStaysLocked ==
    IF ~door.open
    THEN handleWin /\ UNCHANGED game
    ELSE /\ outcome' = <<"DoorLocked">>
         /\ UNCHANGED <<game, pendingResets>>

\* lines 208-215: the target is the door's cell
DoorBump ==
    IF door.open
    THEN handleWin /\ UNCHANGED game
    ELSE /\ outcome' = <<"DoorLocked">>
         /\ UNCHANGED <<game, pendingResets>>

\* PushBlock without lines 232-233: the block moves, the player stays behind
PushBlockLeavesPlayer(block, dx, dy) ==
    LET targetX == blocks[block].x
        targetY == blocks[block].y
        behindX == targetX + dx
        behindY == targetY + dy
    IN  IF ~isInsideGrid(behindX, behindY) THEN ReturnSilently
        ELSE IF isBlockingTile(behindX, behindY) THEN ReturnSilently
        ELSE /\ blocks' = [blocks EXCEPT ![block] = [x |-> behindX, y |-> behindY]]
             /\ player' = player
             /\ CollectKey(player.x, player.y)
             /\ UNCHANGED <<enemies, totalKeys, pendingResets>>
\* PushBlock without lines 228-229: the player steps in, the block stays
PushBlockLeavesBlock(block, dx, dy) ==
    LET targetX == blocks[block].x
        targetY == blocks[block].y
        behindX == targetX + dx
        behindY == targetY + dy
    IN  IF ~isInsideGrid(behindX, behindY) THEN ReturnSilently
        ELSE IF isBlockingTile(behindX, behindY) THEN ReturnSilently
        ELSE /\ blocks' = blocks
             /\ player' = [x |-> targetX, y |-> targetY]
             /\ CollectKey(targetX, targetY)
             /\ UNCHANGED <<enemies, totalKeys, pendingResets>>

\* lines 219-233: the target holds blocks[block]
PushBlock(block, dx, dy) ==
    LET targetX == blocks[block].x
        targetY == blocks[block].y
        behindX == targetX + dx
        behindY == targetY + dy
    IN  IF ~isInsideGrid(behindX, behindY) THEN ReturnSilently
        ELSE IF isBlockingTile(behindX, behindY) THEN ReturnSilently
        ELSE /\ blocks' = [blocks EXCEPT ![block] = [x |-> behindX, y |-> behindY]]
             /\ player' = [x |-> targetX, y |-> targetY]
             /\ CollectKey(targetX, targetY)
             /\ UNCHANGED <<enemies, totalKeys, pendingResets>>

\* WalkTo without the test of line 234: the player walks onto any tile
WalkToUnchecked(targetX, targetY) ==
    /\ player' = [x |-> targetX, y |-> targetY]
    /\ CollectKey(targetX, targetY)
    /\ UNCHANGED <<blocks, enemies, totalKeys, pendingResets>>

\* lines 234-238: the target holds no block
WalkTo(targetX, targetY) ==
    IF ~isWall(targetX, targetY)
    THEN /\ player' = [x |-> targetX, y |-> targetY]
         /\ CollectKey(targetX, targetY)
         /\ UNCHANGED <<blocks, enemies, totalKeys, pendingResets>>
    ELSE /\ CollectKey(player.x, player.y)
         /\ UNCHANGED <<player, blocks, enemies, totalKeys, pendingResets>>

\* lines 195-253; door is never null once resetLevel has read the D of rawMap,
\* so the "door &&" of line 208 is always true
tryMovePlayer(dx, dy) ==
    LET targetX == player.x + dx
        targetY == player.y + dy
        block == findBlockAt(targetX, targetY)
    IN  /\ UNCHANGED enemyStepCounter
        /\ IF ~isInsideGrid(targetX, targetY) THEN ReturnSilently
           ELSE IF isEnemyAt(targetX, targetY) THEN handleDeath /\ UNCHANGED game
           ELSE IF targetX = door.x /\ targetY = door.y THEN DoorBump
           ELSE IF block # 0 THEN PushBlock(block, dx, dy)
           ELSE WalkTo(targetX, targetY)

----------------------------------------------------------------------------
(* Enemy movement *)
\* StepEnemy with the player's cell as one more obstacle
StepEnemyAvoidsPlayer(e) ==
    LET nextX == e.x + e.dir
        nextY == e.y
    IN  IF \/ ~isInsideGrid(nextX, nextY)
           \/ isWall(nextX, nextY)
           \/ findBlockAt(nextX, nextY) # 0
           \/ (nextX = player.x /\ nextY = player.y)
        THEN [e EXCEPT !.dir = e.dir * (-1)]
        ELSE [e EXCEPT !.x = nextX]
\* StepEnemy that turns and steps back in the same tick
StepEnemyTurnsAndMoves(e) ==
    LET nextX == e.x + e.dir
        nextY == e.y
    IN  IF \/ ~isInsideGrid(nextX, nextY)
           \/ isWall(nextX, nextY)
           \/ findBlockAt(nextX, nextY) # 0
        THEN [e EXCEPT !.dir = e.dir * (-1), !.x = e.x - e.dir]
        ELSE [e EXCEPT !.x = nextX]

\* one enemy after the body of the forEach callback, lines 271-278
StepEnemy(e) ==
    LET nextX == e.x + e.dir
        nextY == e.y
    IN  IF \/ ~isInsideGrid(nextX, nextY)
           \/ isWall(nextX, nextY)
           \/ findBlockAt(nextX, nextY) # 0
        THEN [e EXCEPT !.dir = e.dir * (-1)]
        ELSE [e EXCEPT !.x = nextX]

RECURSIVE Times(_, _)
\* n calls of showMessage with category c
Times(c, n) == IF n = 0 THEN <<>> ELSE Append(Times(c, n - 1), c)
\* Colliding with the test of line 281 made before the step of lines 274-278
CollidingBeforeStep(es) ==
    {i \in DOMAIN es : enemies[i].x = player.x /\ enemies[i].y = player.y}

\* lines 280-283: the enemies that end their step on the player's cell
Colliding(es) == {i \in DOMAIN es : es[i].x = player.x /\ es[i].y = player.y}

moveEnemies ==
    LET stepped == [i \in DOMAIN enemies |-> StepEnemy(enemies[i])]
        deaths == Cardinality(Colliding(stepped))
    IN  /\ enemies' = stepped
        /\ outcome' = Times("Death", deaths)
        /\ pendingResets' = pendingResets + deaths
        /\ UNCHANGED <<player, blocks, keys, door, totalKeys, keysCollected>>

\* gameLoop with > for >= in line 375
gameLoopOffByOne ==
    IF enemyStepCounter + 1 > ENEMY_STEP_FRAMES
    THEN moveEnemies /\ enemyStepCounter' = 0
    ELSE /\ enemyStepCounter' = enemyStepCounter + 1
         /\ outcome' = <<>>
         /\ UNCHANGED <<game, pendingResets>>

\* lines 373-382: one animation frame; draw() reads the state only
gameLoop ==
    IF enemyStepCounter + 1 >= ENEMY_STEP_FRAMES
    THEN moveEnemies /\ enemyStepCounter' = 0
    ELSE /\ enemyStepCounter' = enemyStepCounter + 1
         /\ outcome' = <<>>
         /\ UNCHANGED <<game, pendingResets>>

----------------------------------------------------------------------------
(* Resets *)

\* the restart button, line 423
resetLevel ==
    /\ LoadLevel
    /\ outcome' = <<"Start">>
    /\ UNCHANGED <<enemyStepCounter, pendingResets>>

\* a timer set by handleDeath or handleWin fires and calls resetLevel
TimerFires ==
    /\ pendingResets > 0
    /\ pendingResets' = pendingResets - 1
    /\ LoadLevel
    /\ outcome' = <<"Start">>
    /\ UNCHANGED enemyStepCounter

----------------------------------------------------------------------------
(* Specification *)

Dirs == {<<0, -1>>, <<0, 1>>, <<-1, 0>>, <<1, 0>>}

Abs(n) == IF n < 0 THEN -n ELSE n

\* distance of block i from its map position
Shift(i) ==
    Abs(blocks[i].x - LevelBlocks[i].x) + Abs(blocks[i].y - LevelBlocks[i].y)

BlocksWithin(shift) ==
    /\ \A i \in DOMAIN blocks : Shift(i) <= shift
    /\ Cardinality({i \in DOMAIN blocks : Shift(i) > 0}) <= MaxMoved

PendingWithin == pendingResets <= MaxPending

\* line 428: the script ends with resetLevel()
Init ==
    /\ player = LevelPlayer
    /\ blocks = LevelBlocks
    /\ keys = LevelKeys
    /\ door = LevelDoor
    /\ enemies = LevelEnemies
    /\ keysCollected = 0
    /\ totalKeys = LevelTotalKeys
    /\ enemyStepCounter = 0
    /\ pendingResets = 0
    /\ outcome = <<"Start">>
    /\ ended = {}

\* the history of the round: a handler adds the Death or Win it has shown,
\* resetLevel starts a new round
Noted ==
    ended' = ended \cup ({outcome'[k] : k \in DOMAIN outcome'} \cap {"Death", "Win"})
Cleared == ended' = {}

\* the four handlers, in any order
Move ==
    \E d \in Dirs :
        tryMovePlayer(d[1], d[2]) /\ BlocksWithin(MaxShift)' /\ PendingWithin' /\ Noted
Tick == moveEnemies /\ UNCHANGED enemyStepCounter /\ PendingWithin' /\ Noted
Restart == resetLevel /\ Cleared
Timer == TimerFires /\ Cleared

Next == Move \/ Tick \/ Restart \/ Timer

Spec == Init /\ [][Next]_vars

\* the player's handlers between two enemy steps, with room to push further
Push ==
    \E d \in Dirs :
        tryMovePlayer(d[1], d[2]) /\ BlocksWithin(MaxPushShift)' /\ PendingWithin'
            /\ Noted

NextPush == Push \/ Restart \/ Timer

SpecPush == Init /\ [][NextPush]_vars

\* the player holds the right arrow down while the enemies patrol
MoveRight == tryMovePlayer(1, 0) /\ PendingWithin' /\ Noted

NextRight == MoveRight \/ Tick

SpecRight == Init /\ [][NextRight]_vars

----------------------------------------------------------------------------
(* Vocabulary of the properties: positions read from the map itself *)

InGrid(p) == p.x \in 0..(GRID_WIDTH - 1) /\ p.y \in 0..(GRID_HEIGHT - 1)
OnWall(p) == InGrid(p) /\ rawMap[p.y + 1][p.x + 1] = "#"
Cell(x, y) == [x |-> x, y |-> y]
At(e) == Cell(e.x, e.y)
Target(d) == Cell(player.x + d[1], player.y + d[2])
Behind(d) == Cell(player.x + 2 * d[1], player.y + 2 * d[2])
BlockOn(c) == \E i \in DOMAIN blocks : blocks[i] = c
EnemyOn(c) == \E i \in DOMAIN enemies : At(enemies[i]) = c
PlayerStep(d) == tryMovePlayer(d[1], d[2])
LevelLoaded == resetLevel \/ TimerFires

\* C1: the player is always inside the grid (0 <= x < 15, 0 <= y < 11) and
\* never on a wall cell, whatever moves, enemy ticks and resets came before.
PlayerInsideGridOffWalls == InGrid(player) /\ ~OnWall(player)

\* the player in the far corner of the map, walls below and to the right,
\* after blocks were pushed and the enemy has patrolled
PlayerReachedFarCorner ==
    /\ player = Cell(GRID_WIDTH - 2, GRID_HEIGHT - 2)
    /\ blocks # LevelBlocks
    /\ enemies # LevelEnemies

\* C2: every block is inside the grid, no block is on a wall cell and no two
\* blocks are on the same cell.
BlocksInsideGridOffWallsApart ==
    /\ \A i \in DOMAIN blocks : InGrid(blocks[i]) /\ ~OnWall(blocks[i])
    /\ \A i, j \in DOMAIN blocks : i # j => blocks[i] # blocks[j]

\* a block was pushed straight from its map position up to another block,
\* and the player stands right behind it
BlockPushedAgainstBlock ==
    \E i, j \in DOMAIN blocks : \E d \in Dirs : \E k \in 1..MaxPushShift :
        /\ i # j
        /\ blocks[i] = Cell(LevelBlocks[i].x + k * d[1], LevelBlocks[i].y + k * d[2])
        /\ blocks[j] = Cell(blocks[i].x + d[1], blocks[i].y + d[2])
        /\ player = Cell(blocks[i].x - d[1], blocks[i].y - d[2])

\* C3: no block is ever on the door's cell.
NoBlockOnDoor == ~BlockOn(Cell(door.x, door.y))

\* C4: every enemy is inside the grid, never on a wall cell and never on a
\* cell that holds a block, also right after a push of the player.
EnemiesInsideGridOffWallsOffBlocks ==
    \A i \in DOMAIN enemies :
        /\ InGrid(At(enemies[i]))
        /\ ~OnWall(At(enemies[i]))
        /\ ~BlockOn(At(enemies[i]))

\* C5: keysCollected is the number of keys whose collected flag is set, and
\* the door is open exactly when keysCollected = totalKeys.
KeysCountedDoorFollows ==
    /\ keysCollected = Cardinality({i \in DOMAIN keys : keys[i].collected})
    /\ door.open <=> (keysCollected = totalKeys)

\* the last key has just been picked up
AllKeysPickedUp ==
    /\ \A i \in DOMAIN keys : keys[i].collected
    /\ keysCollected = totalKeys
    /\ door.open

\* C6: the door opens only in the tryMovePlayer step in which keysCollected
\* reaches totalKeys, and it opens in every such step; once open it is closed
\* again only by a reset, so it opens at most once between two resets, and no
\* tryMovePlayer or moveEnemies step closes it.
DoorOpensOnceOnLastKey ==
    [][ /\ (~door.open /\ door'.open) =>
              /\ keysCollected # totalKeys
              /\ keysCollected' = totalKeys'
              /\ \E d \in Dirs : PlayerStep(d)
        /\ (keysCollected # totalKeys /\ keysCollected' = totalKeys'
                /\ \E d \in Dirs : PlayerStep(d))
              => (~door.open /\ door'.open)
        /\ (door.open /\ ~door'.open) =>
              /\ LevelLoaded
              /\ ~moveEnemies
              /\ \A d \in Dirs : ~PlayerStep(d)
      ]_vars

\* the door stands open after the step that collected the last key
DoorJustOpened ==
    /\ door.open
    /\ outcome = <<"KeyCollected", "AllKeysCollected">>

\* C7: when the target of tryMovePlayer(dx,dy) holds a block (no enemy, not
\* the door): if the cell behind is inside the grid, no wall and no block,
\* the block and the player both move one cell in (dx,dy) and no other block
\* changes; otherwise the whole state is unchanged. No step other than a
\* level load moves a block without the player following it.
PushMovesBothOrNeither ==
    [][ /\ \A d \in Dirs :
              (BlockOn(Target(d)) /\ ~EnemyOn(Target(d))
                  /\ Target(d) # Cell(door.x, door.y) /\ PlayerStep(d))
              => IF InGrid(Behind(d)) /\ ~OnWall(Behind(d)) /\ ~BlockOn(Behind(d))
                 THEN /\ player' = Target(d)
                      /\ \E i \in DOMAIN blocks :
                            /\ blocks[i] = Target(d)
                            /\ blocks' = [blocks EXCEPT ![i] = Behind(d)]
                 ELSE UNCHANGED <<game, pendingResets>>
        /\ (blocks' # blocks /\ ~LevelLoaded) =>
              \E d \in Dirs :
                  /\ player' = Target(d)
                  /\ \E i \in DOMAIN blocks :
                        /\ blocks[i] = Target(d)
                        /\ blocks' = [blocks EXCEPT ![i] = Behind(d)]
        /\ \A d \in Dirs :
              (BlockOn(Target(d)) /\ player' # player /\ PlayerStep(d))
              => blocks' # blocks
      ]_vars

\* a block was pushed straight from its map position up to a wall, and the
\* player stands right behind it
BlockPushedAgainstWall ==
    \E i \in DOMAIN blocks : \E d \in Dirs : \E k \in 1..MaxPushShift :
        /\ blocks[i] = Cell(LevelBlocks[i].x + k * d[1], LevelBlocks[i].y + k * d[2])
        /\ OnWall(Cell(blocks[i].x + d[1], blocks[i].y + d[2]))
        /\ player = Cell(blocks[i].x - d[1], blocks[i].y - d[2])

\* C8: a tryMovePlayer whose target is a wall or outside the grid changes
\* nothing of the game state, shows no message and schedules no reset.
WallBumpChangesNothing ==
    [][ \A d \in Dirs :
            ((~InGrid(Target(d)) \/ OnWall(Target(d))) /\ PlayerStep(d))
            => /\ UNCHANGED <<game, pendingResets>>
               /\ outcome' = <<>>
      ]_vars

\* the loaded level, untouched, after a tryMovePlayer that showed nothing:
\* the player is in its corner and has bumped into a wall
BumpedIntoWallAtStart ==
    /\ outcome = <<>>
    /\ player = LevelPlayer /\ OnWall(Cell(player.x - 1, player.y))
    /\ blocks = LevelBlocks /\ enemies = LevelEnemies /\ keys = LevelKeys
    /\ pendingResets = 0

\* C9: a tryMovePlayer whose target holds an enemy shows Death, schedules a
\* reset and changes nothing of the game state, whatever else is on the target.
EnemyBumpIsDeathOnly ==
    [][ \A d \in Dirs :
            (EnemyOn(Target(d)) /\ PlayerStep(d))
            => /\ UNCHANGED game
               /\ outcome' = <<"Death">>
               /\ pendingResets' = pendingResets + 1
      ]_vars

\* Death is shown with the enemy next to the player, not on the player's
\* cell: the player walked into it
WalkedIntoEnemy ==
    /\ outcome = <<"Death">>
    /\ pendingResets > 0
    /\ ~EnemyOn(player)
    /\ \E d \in Dirs : EnemyOn(Target(d))

\* C10: a tryMovePlayer whose target is the door (no enemy on it) changes
\* nothing of the game state; it shows Win and schedules a reset when the
\* door is open, and shows DoorLocked and schedules nothing when it is not.
\* Win is shown only when keysCollected = totalKeys.
DoorBumpWinsOnlyWhenOpen ==
    [][ /\ \A d \in Dirs :
              (Target(d) = Cell(door.x, door.y) /\ ~EnemyOn(Target(d))
                  /\ PlayerStep(d))
              => /\ UNCHANGED game
                 /\ IF door.open
                    THEN /\ outcome' = <<"Win">>
                         /\ pendingResets' = pendingResets + 1
                    ELSE /\ outcome' = <<"DoorLocked">>
                         /\ pendingResets' = pendingResets
        /\ \A k \in DOMAIN outcome' :
              outcome'[k] = "Win" =>
                  /\ keysCollected = totalKeys
                  /\ keysCollected' = totalKeys'
                  /\ \E d \in Dirs : Target(d) = Cell(door.x, door.y)
      ]_vars

\* Win is shown, the player next to the open door
WonAtOpenDoor ==
    /\ outcome = <<"Win">>
    /\ door.open
    /\ pendingResets > 0
    /\ \E d \in Dirs : Target(d) = Cell(door.x, door.y)

\* C11: a tryMovePlayer call changes a key only when it has moved the player
\* onto the cell of an uncollected key: exactly that key becomes collected,
\* keysCollected grows by exactly 1 and KeyCollected is shown; AllKeysCollected
\* is shown as well and the door opened exactly when the new keysCollected
\* equals totalKeys. A call that leaves the player where it was collects no
\* key, and a call that moves the player onto an uncollected key collects it.
KeyCollectedOnlyOnArrival ==
    [][ /\ \A d \in Dirs :
              ((keys' # keys \/ keysCollected' # keysCollected) /\ PlayerStep(d))
              => /\ player' = Target(d)
                 /\ \E i \in DOMAIN keys :
                       /\ At(keys[i]) = player' /\ ~keys[i].collected
                       /\ keys' = [keys EXCEPT ![i].collected = TRUE]
                 /\ keysCollected' = keysCollected + 1
                 /\ IF keysCollected' = totalKeys
                    THEN /\ outcome' = <<"KeyCollected", "AllKeysCollected">>
                         /\ door' = [door EXCEPT !.open = TRUE]
                    ELSE /\ outcome' = <<"KeyCollected">>
                         /\ door' = door
        /\ \A d \in Dirs :
              (player' = player /\ PlayerStep(d))
              => /\ keys' = keys /\ keysCollected' = keysCollected
                 /\ \A k \in DOMAIN outcome' :
                       outcome'[k] \notin {"KeyCollected", "AllKeysCollected"}
        /\ \A d \in Dirs :
              ((\E i \in DOMAIN keys : At(keys[i]) = Target(d) /\ ~keys[i].collected)
                  /\ player' = Target(d) /\ PlayerStep(d))
              => keys' # keys
      ]_vars

\* the player stands on the cell of the second key it has picked up, with one
\* key left on the map and the door still closed
SecondKeyJustCollected ==
    /\ outcome = <<"KeyCollected">>
    /\ keysCollected = 2
    /\ ~door.open
    /\ \E i \in DOMAIN keys : keys[i].collected /\ At(keys[i]) = player

----------------------------------------------------------------------------
(* A level with a second enemy: the map with one more E marker *)

\* the cells that get the second E: in the corridor of row 1 (scanned before
\* the map's enemy) and on the patrol row 3 (scanned after it)
ExtraEnemyCells == {Cell(3, 1), Cell(9, 3)}

\* lines 154-155 over the map with an E on cell c as well
LevelEnemiesWith(c) ==
    LET marked == SelectSeq(ScanOrder, LAMBDA s : MapChar(s.x, s.y) = "E" \/ s = c)
    IN  [i \in 1..Len(marked) |-> [x |-> marked[i].x, y |-> marked[i].y, dir |-> 1]]

InitTwoEnemies ==
    \E c \in ExtraEnemyCells :
        /\ player = LevelPlayer
        /\ blocks = LevelBlocks
        /\ keys = LevelKeys
        /\ door = LevelDoor
        /\ enemies = LevelEnemiesWith(c)
        /\ keysCollected = 0
        /\ totalKeys = LevelTotalKeys
        /\ enemyStepCounter = 0
        /\ pendingResets = 0
        /\ outcome = <<"Start">>
        /\ ended = {}

\* the player walks right and down while the two enemies patrol
MoveDown == tryMovePlayer(0, 1) /\ PendingWithin' /\ Noted
TickTwoEnemies ==
    moveEnemies /\ UNCHANGED enemyStepCounter /\ pendingResets' <= MaxDeaths /\ Noted

NextTwoEnemies == MoveRight \/ MoveDown \/ TickTwoEnemies

SpecTwoEnemies == InitTwoEnemies /\ [][NextTwoEnemies]_vars

----------------------------------------------------------------------------
(* The scheduled resets do fire *)

\* the player walks without pushing a block off its map cell
Walk ==
    \E d \in Dirs :
        tryMovePlayer(d[1], d[2]) /\ BlocksWithin(MaxWalkShift)' /\ PendingWithin'
            /\ Noted

NextTimers == Walk \/ Tick \/ Restart \/ Timer

\* a timer of setTimeout(resetLevel, ..) that is pending fires after its delay
SpecTimers == Init /\ [][NextTimers]_vars /\ WF_vars(Timer)

\* the cells of the map that carry marker ch
MapCells(ch) ==
    {c \in {Cell(x, y) : x \in 0..(GRID_WIDTH - 1), y \in 0..(GRID_HEIGHT - 1)} :
        rawMap[c.y + 1][c.x + 1] = ch}
PlayerCells == MapCells("P")
BlockCells == MapCells("B")
KeyCells == MapCells("K")
DoorCells == MapCells("D")
EnemyCells == MapCells("E")

\* the game state of the freshly loaded level
FreshLevel ==
    /\ player \in PlayerCells
    /\ Len(blocks) = Cardinality(BlockCells)
    /\ {blocks[i] : i \in DOMAIN blocks} = BlockCells
    /\ Len(keys) = Cardinality(KeyCells)
    /\ {At(keys[i]) : i \in DOMAIN keys} = KeyCells
    /\ \A i \in DOMAIN keys : ~keys[i].collected
    /\ keysCollected = 0
    /\ totalKeys = Cardinality(KeyCells)
    /\ At(door) \in DoorCells /\ ~door.open
    /\ Len(enemies) = Cardinality(EnemyCells)
    /\ {At(enemies[i]) : i \in DOMAIN enemies} = EnemyCells
    /\ \A i \in DOMAIN enemies : enemies[i].dir = 1

DeathOrWinShown == \E k \in DOMAIN outcome : outcome[k] \in {"Death", "Win"}

----------------------------------------------------------------------------
(* The enemy step *)

\* the cell an enemy looks at in its step
Ahead(e) == Cell(e.x + e.dir, e.y)

EnemyTurnsOrAdvances ==
    /\ [](\A i \in DOMAIN enemies : enemies[i].dir \in {1, -1})
    /\ [][ /\ (enemies' # enemies /\ moveEnemies)
              => \A i \in DOMAIN enemies :
                     IF \/ ~InGrid(Ahead(enemies[i]))
                        \/ OnWall(Ahead(enemies[i]))
                        \/ BlockOn(Ahead(enemies[i]))
                     THEN enemies'[i] = [enemies[i] EXCEPT !.dir = -enemies[i].dir]
                     ELSE enemies'[i] =
                              [enemies[i] EXCEPT !.x = enemies[i].x + enemies[i].dir]
           /\ (enemies' # enemies /\ ~LevelLoaded)
              => /\ DOMAIN enemies' = DOMAIN enemies
                 /\ \A i \in DOMAIN enemies : enemies'[i].y = enemies[i].y
           /\ enemies' # enemies => \A d \in Dirs : ~PlayerStep(d)
         ]_vars

\* an enemy has turned round in front of a block that was pushed onto its row
EnemyTurnedAtBlock ==
    \E i \in DOMAIN enemies :
        /\ enemies[i].dir = -1
        /\ BlockOn(Cell(enemies[i].x + 1, enemies[i].y))
        /\ blocks # LevelBlocks

----------------------------------------------------------------------------
(* The frames of the game loop *)

\* requestAnimationFrame calls gameLoop frame after frame
Frame == gameLoop /\ PendingWithin' /\ Noted

\* the frames, with the right arrow and the restart button pressed in between
NextFrames == Frame \/ MoveRight \/ Restart

SpecFrames == Init /\ [][NextFrames]_vars

\* C16: the enemies step on every 40th gameLoop frame and on no other frame:
\* enemyStepCounter stays within 0..39, only a frame changes it, a frame that
\* finds it below 39 adds 1 and leaves the enemies alone, a frame that finds
\* it at 39 runs moveEnemies and sets it to 0; a step that moves the player,
\* shows a message of tryMovePlayer or loads the level leaves it unchanged.
EnemiesStepEveryFortiethFrame ==
    /\ [](enemyStepCounter \in 0..(ENEMY_STEP_FRAMES - 1))
    /\ [][ /\ enemyStepCounter' # enemyStepCounter
              => /\ enemyStepCounter' = (enemyStepCounter + 1) % ENEMY_STEP_FRAMES
                 /\ UNCHANGED <<player, blocks, keys, door, totalKeys, keysCollected>>
                 /\ IF enemyStepCounter = ENEMY_STEP_FRAMES - 1
                    THEN moveEnemies
                    ELSE enemies' = enemies /\ outcome' = <<>>
           /\ (enemies' # enemies /\ outcome' # <<"Start">>)
              => /\ enemyStepCounter = ENEMY_STEP_FRAMES - 1
                 /\ enemyStepCounter' = 0
           /\ (player' # player \/ blocks' # blocks \/ keys' # keys
                  \/ outcome' \in {<<"Start">>, <<"DoorLocked">>, <<"Win">>})
              => enemyStepCounter' = enemyStepCounter
         ]_vars

\* the enemies have stepped once, on the 40th frame, while the player has
\* pushed the block of row 1 ahead
EnemiesSteppedOnFortiethFrame ==
    /\ enemyStepCounter = 0
    /\ \A i \in DOMAIN enemies : enemies[i].x = LevelEnemies[i].x + 1
    /\ player # LevelPlayer
    /\ blocks # LevelBlocks

----------------------------------------------------------------------------
(* Who shares a cell with the player *)

\* C17: the player's cell is never the door's cell and never a cell that
\* holds a block.
PlayerOffDoorAndBlocks ==
    /\ player # Cell(door.x, door.y)
    /\ ~BlockOn(player)

\* the player stands on the map cell of a block it has just pushed one cell
\* further, the block right ahead of it
PlayerTookBlocksCell ==
    \E i \in DOMAIN blocks : \E d \in Dirs :
        /\ player = LevelBlocks[i]
        /\ blocks[i] = Target(d)
        /\ outcome = <<>>

\* C18: whenever the player and an enemy are on the same cell, Death has been
\* shown since the last resetLevel and a reset is pending.
SharedCellMeansDeathPending ==
    EnemyOn(player) => ("Death" \in ended /\ pendingResets > 0)

\* the player is still on the cell of the enemy that caught it and has run
\* into a wall since: the last handler showed nothing
PlayerStillUnderEnemy ==
    /\ EnemyOn(player)
    /\ outcome = <<>>
    /\ "Death" \in ended
    /\ pendingResets > 0

----------------------------------------------------------------------------
(* Resets that were scheduled in an earlier round *)

\* C19: whenever a reset scheduled by handleDeath or handleWin fires, Death
\* or Win has been shown since the most recent resetLevel (by a timer or by
\* the restart button): a timer only resets the round that scheduled it.
TimerResetsOnlyItsOwnRound ==
    [][ (pendingResets' < pendingResets /\ TimerFires) => ended # {} ]_vars

----------------------------------------------------------------------------
(* One way through the level *)

\* the arrow key the player presses next: down the left corridor and right to
\* the key of row 6, up column 7 and right to the key of row 1, back and down
\* column 9 and right to the key of row 9, right and up column 13 to the door
PlayDir ==
    CASE keysCollected = 0 ->
             IF player.y < 6 THEN <<0, 1>> ELSE <<1, 0>>
      [] keysCollected = 1 ->
             IF player.y = 6 /\ player.x < 7 THEN <<1, 0>>
             ELSE IF player.y > 1 THEN <<0, -1>> ELSE <<1, 0>>
      [] keysCollected = 2 ->
             IF player.y = 1 /\ player.x > 9 THEN <<-1, 0>>
             ELSE IF player.y < 9 THEN <<0, 1>> ELSE <<1, 0>>
      [] OTHER ->
             IF player.y = 9 /\ player.x < 13 THEN <<1, 0>> ELSE <<0, -1>>

\* no enemy is on the cell the player is about to enter, and none steps onto
\* it in the next moveEnemies tick
SafeAhead ==
    \A i \in DOMAIN enemies :
        /\ At(enemies[i]) # Target(PlayDir)
        /\ At(StepEnemy(enemies[i])) # Target(PlayDir)

\* the player presses the key when the way is safe and lets the frames pass
\* when it is not; the play ends with the Win
PlayMove ==
    /\ outcome # <<"Win">>
    /\ SafeAhead
    /\ tryMovePlayer(PlayDir[1], PlayDir[2])
    /\ Noted
PlayWait ==
    /\ outcome # <<"Win">>
    /\ ~SafeAhead
    /\ gameLoop
    /\ Noted

NextPlay == PlayMove \/ PlayWait

SpecPlay == Init /\ [][NextPlay]_vars /\ WF_vars(NextPlay)

\* C20: the shipped level can be won. There is a finite interleaving of
\* tryMovePlayer calls and moveEnemies ticks from the loaded level, the one
\* SpecPlay follows, in which Death is never shown, no reset is scheduled
\* before the Win, and in the end all three keys are collected, the door is
\* open and Win is shown.
LevelIsWinnable ==
    /\ []("Death" \notin ended)
    /\ [](pendingResets > 0 => outcome = <<"Win">>)
    /\ [](outcome = <<"Start">> => FreshLevel)
    /\ <>(/\ outcome = <<"Win">>
          /\ keysCollected = 3
          /\ \A i \in DOMAIN keys : keys[i].collected
          /\ door.open)

\* Win is shown at the end of the play: three keys, the door open, the
\* enemy away from its map cell, no Death in the round
WonWithoutDeath ==
    /\ outcome = <<"Win">>
    /\ ended = {"Win"}
    /\ keysCollected = 3
    /\ door.open
    /\ enemies # LevelEnemies
    /\ blocks = LevelBlocks

====
